---- MODULE Spec2Model ----
(***************************************************************************)
(* Model of pi_garage_manager.py: the main thread (PiGarageAlert.main:     *)
(* start-up, listener creation, poll loop with alert evaluation) and the   *)
(* daemon command thread (doorTriggerLoop).                                *)
(***************************************************************************)
EXTENDS Integers, Sequences, FiniteSets, TLC

\* ------------------------------------------------------------------ bounds
\* Largest reading of time.time(), in clock units, the model follows.
MaxTime == 4
\* Largest number of rules in cfg.ALERTS.
MaxRules == 2
\* Most actuator pulses counted.
MaxPulses == 2

\* ------------------------------------------------------ program constants
\* Listener(address) at line 262 takes the default backlog of
\* multiprocessing.connection.Listener: one connection waits unaccepted.
Backlog == 1

\* ----------------------------------------------------- configuration sets
Hours == 0..23
\* The ends of the windows below, the hours next to them, and midnight.
BoundaryHours == {0, 6, 7, 22, 23}
DoorStates == {"open", "closed"}
Modes == {"home", "away"}
\* Rules of cfg.ALERTS: start, end (hours), time (threshold), state.
Rule(s, e, t, st) == [start |-> s, end |-> e, time |-> t, state |-> st]
RuleCatalogue == {Rule(6, 22, 1, "open"), Rule(22, 6, 1, "closed"),
                  Rule(6, 6, 1, "open"), Rule(22, 6, 0, "open")}
RuleLists == UNION {[1..n -> RuleCatalogue] : n \in 0..MaxRules}

\* Payloads a client sends (sys.argv[1] of pi_garage_trigger.py).
Payloads == {"trigger", "open", "Open", "up", "close", "down",
             "home", "set to home", "away", "set to away",
             "state", "status", "firebase:Id2", "Firebase:Id1", "lock",
             "toggle"}
FewPayloads == {"trigger", "away", "state"}

NoResponse == "<none>"
NoTime == -1
\* What waits in the backlog for a connection of pi_garage_trigger.py:
\* Client(address, authkey=...) (line 10) sends nothing before it has read
\* the challenge of the listener.
AwaitsChallenge == "<awaits challenge>"

VARIABLES
  main_pc,      \* position of the main thread: "start", "poll", "exited"
  th_pc,        \* position of doorTriggerThread: "bind", "accept", "recv",
                \* "busy", "dead", "killed"
  bound_by,     \* who holds the listening socket on cfg.NETWORK_IP:PORT
  ALERTS,       \* cfg.ALERTS
  HOMEAWAY,     \* cfg.HOMEAWAY
  FIREBASE_ID,  \* cfg.FIREBASE_ID
  pin15,        \* level of the sensor pin (1: door open)
  pin26,        \* level of the relay control pin
  now,          \* last reading of time.time()
  door_state,   \* main's door_state
  time_of_last_state_change,
  alert_state,  \* main's alert_state
  state,        \* main's local `state` (last sample)
  time_in_state,\* main's time_in_state as used by the alert loop
  time_of_day,  \* hour read by the alert loop
  sent,         \* indices of the rules for which send_alerts was called on the last tick
  fires,        \* per rule: number of send_alerts calls in the current episode
  pending,      \* payloads of connections waiting to be accepted
  received_raw, \* doorTriggerLoop's received_raw
  response,     \* response sent on the last accepted connection, or NoResponse
  trigger,      \* doorTriggerLoop's trigger
  pulses,       \* number of pulses driven on pin 26
  poll_fault,   \* what went wrong in the last pass of the poll loop:
                \* "none", "sensor" (GPIO.input raised), "transport" (a delivery failed)
  last_mode_cmd \* history: mode of the last home/away command routed by
                \* the running thread, or "none"

vars == <<main_pc, th_pc, bound_by, ALERTS, HOMEAWAY, FIREBASE_ID, pin15,
          pin26, now, door_state, time_of_last_state_change, alert_state,
          state, time_in_state, time_of_day, sent, fires, pending,
          received_raw, response, trigger, pulses, poll_fault,
          last_mode_cmd>>

mainVars == <<door_state, time_of_last_state_change, alert_state, state,
              time_in_state, time_of_day, sent, fires, now, poll_fault>>
cmdVars == <<received_raw, response, trigger, pulses, last_mode_cmd>>
cfgVars == <<ALERTS, HOMEAWAY, FIREBASE_ID>>

\* ------------------------------------------------------------------- Init
\* State right after doorTriggerThread.start() (line 359): pins set up
\* (351, 353: pin 26 initial HIGH), thread created, main's locals not yet
\* read.  cfg.ALERTS and cfg.HOMEAWAY are whatever the configuration holds.
InitWith(lists) ==
  /\ main_pc = "start"
  /\ th_pc = "bind"
  /\ bound_by = "none"
  /\ ALERTS \in lists
  /\ HOMEAWAY \in Modes
  /\ FIREBASE_ID = ""
  /\ pin15 \in {0, 1}
  /\ pin26 = "HIGH"
  /\ now = 0
  /\ door_state = ""
  /\ time_of_last_state_change = NoTime
  /\ alert_state = 0
  /\ state = ""
  /\ time_in_state = 0
  /\ time_of_day = 0
  /\ sent = {}
  /\ fires = [i \in 1..Len(ALERTS) |-> 0]
  /\ pending = <<>>
  /\ received_raw = ""
  /\ response = NoResponse
  /\ trigger = FALSE
  /\ pulses = 0
  /\ poll_fault = "none"
  /\ last_mode_cmd = "none"

\* ------------------------------------------------------------ environment
\* The door moves: the level of the sensor pin changes.
DoorMoves ==
  /\ main_pc # "exited"
  /\ pin15' = 1 - pin15
  /\ UNCHANGED <<main_pc, th_pc, bound_by, pin26, pending, cfgVars,
                 mainVars, cmdVars>>

\* get_garage_door_state(), lines 235-246.
GetGarageDoorState == IF pin15 # 0 THEN "open" ELSE "closed"

\* ---------------------------------------------------------- alert engine
\* Mutant of InWindow: the end hour is excluded.
InWindowEndExcluded(start_time, end_time, hour) ==
  IF start_time < end_time
  THEN hour >= start_time /\ hour < end_time
  ELSE IF start_time > end_time
       THEN hour >= start_time \/ hour < end_time
       ELSE FALSE

\* Window test of lines 414-420 (the hour part of the two conditions).
InWindow(start_time, end_time, hour) ==
  IF start_time < end_time
  THEN hour >= start_time /\ hour <= end_time
  ELSE IF start_time > end_time
       THEN hour >= start_time \/ hour <= end_time
       ELSE FALSE

\* Mutant of SendAlert: the away-mode override of line 411 is missing.
SendAlertWindowOnly(alert, mode, st, hour, tis) ==
  /\ InWindow(alert.start, alert.end, hour)
  /\ tis > alert.time
  /\ st = alert.state

\* Mutant of SendAlert: the threshold itself already fires.
SendAlertAtThreshold(alert, mode, st, hour, tis) ==
  IF mode = "away" /\ st = "open"
  THEN TRUE
  ELSE /\ InWindow(alert.start, alert.end, hour)
       /\ tis >= alert.time
       /\ st = alert.state

\* send_alert as computed by lines 408-420 for one rule.
SendAlert(alert, mode, st, hour, tis) ==
  IF mode = "away" /\ st = "open"
  THEN TRUE
  ELSE /\ InWindow(alert.start, alert.end, hour)
       /\ tis > alert.time
       /\ st = alert.state

\* Line 403: the rule is evaluated only if alert_state == 0.
Armed(a_state) == a_state = 0

\* Mutant of NextAlertState: the rule is not marked as fired.
NextAlertStateStuck(a_state) == a_state

\* Line 424: alert_state += 1
NextAlertState(a_state) == a_state + 1

\* The for loop of lines 401-424 from rule i on:
\* result is <<alert_state, set of rules that called send_alerts>>.
RECURSIVE EvalAlerts(_, _, _, _, _, _, _, _)
EvalAlerts(alerts, i, a_state, fired, mode, st, hour, tis) ==
  IF i > Len(alerts)
  THEN <<a_state, fired>>
  ELSE IF Armed(a_state) /\ SendAlert(alerts[i], mode, st, hour, tis)
       THEN EvalAlerts(alerts, i + 1, NextAlertState(a_state), fired \cup {i},
                       mode, st, hour, tis)
       ELSE EvalAlerts(alerts, i + 1, a_state, fired, mode, st, hour, tis)

\* Mutant of TimeInState: line 398 is missing.
TimeInStateNoReset(changed, t1, started) == t1 - started

\* time_in_state of one pass: line 387, reset by line 398 on a change.
TimeInState(changed, t1, started) == IF changed THEN 0 ELSE t1 - started

\* --------------------------------------------------------- main thread
\* Mutant of ExitProcess: GPIO.cleanup() is missing.
ExitProcessNoCleanup ==
  /\ main_pc' = "exited"
  /\ th_pc' = IF th_pc = "dead" THEN "dead" ELSE "killed"
  /\ pin26' = pin26
  /\ bound_by' = "none"
  /\ pending' = <<>>

\* GPIO.cleanup() then sys.exit(0) (lines 428-431); the daemon thread, when
\* it still runs, dies with the process.
ExitProcess ==
  /\ main_pc' = "exited"
  /\ th_pc' = IF th_pc = "dead" THEN "dead" ELSE "killed"
  /\ pin26' = "INPUT"
  /\ bound_by' = "none"
  /\ pending' = <<>>

\* Lines 361-383: read the initial state, then Listener(address).
\* The bind fails when doorTriggerThread already listens on the address;
\* the except/finally of lines 426-431 then ends the process.
\* The clock of the model starts with this first reading of time.time().
MainStart ==
  /\ main_pc = "start"
  /\ state' = GetGarageDoorState
  /\ door_state' = GetGarageDoorState
  /\ time_of_last_state_change' = now + 1
  /\ now' = now + 1
  /\ alert_state' = 0
  /\ UNCHANGED <<time_in_state, time_of_day, sent, fires, poll_fault>>
  /\ IF bound_by = "none"
     THEN /\ bound_by' = "main"
          /\ main_pc' = "poll"
          /\ UNCHANGED <<th_pc, pin26, pending>>
     ELSE ExitProcess
  /\ UNCHANGED <<pin15, cfgVars, cmdVars>>

\* Mutant of DeliveryRaises: the senders do not catch.
DeliveryRaisesUncaught(failed) == failed

\* Whether send_alerts (169-186) raises when the transport of a delivery
\* fails: each sender wraps its transport in try/except, logs and returns
\* (lines 89-96, 121-124, 160-163).
DeliveryRaises(failed) == FALSE

\* A pass of the poll loop in which the read of the sensor raises
\* (GPIO.input at 245, called from 386), or the pass is interrupted there:
\* the bare except of 426 logs, the finally of 428-431 ends the process.
PollFault ==
  /\ main_pc = "poll"
  /\ poll_fault' = "sensor"
  /\ ExitProcess
  /\ UNCHANGED <<door_state, time_of_last_state_change, alert_state, state,
                 time_in_state, time_of_day, sent, fires, now, pin15,
                 cfgVars, cmdVars>>

\* One pass of the poll loop, lines 386-424.  t1 is the reading of
\* time.time() at 387, t2 the reading at 392, hour the hour of 405;
\* failed tells whether the transport of the delivery made in this pass
\* fails.  Successive readings of the clock grow.
Tick(t1, t2, hour, failed) ==
  /\ main_pc = "poll"
  /\ t1 > now /\ t1 <= MaxTime
  /\ t2 \in {t1, t1 + 1} /\ t2 <= MaxTime
  /\ LET sample == GetGarageDoorState
         changed == door_state # sample
         tis == TimeInState(changed, t1, time_of_last_state_change)
         a0 == IF changed THEN 0 ELSE alert_state
         res == EvalAlerts(ALERTS, 1, a0, {}, HOMEAWAY, sample, hour, tis)
         raised == res[2] # {} /\ DeliveryRaises(failed)
     IN /\ (~changed => t2 = t1)
        /\ (failed => res[2] # {})
        /\ state' = sample
        /\ door_state' = sample
        /\ time_of_last_state_change' =
             IF changed THEN t2 ELSE time_of_last_state_change
        /\ now' = t2
        /\ time_in_state' = tis
        /\ time_of_day' = hour
        /\ alert_state' = IF raised THEN a0 ELSE res[1]
        /\ sent' = res[2]
        /\ fires' = [i \in 1..Len(ALERTS) |->
                       (IF changed THEN 0 ELSE fires[i])
                       + (IF i \in res[2] THEN 1 ELSE 0)]
        /\ poll_fault' = IF failed THEN "transport" ELSE "none"
        /\ IF raised
           THEN ExitProcess
           ELSE UNCHANGED <<main_pc, th_pc, bound_by, pending, pin26>>
  /\ UNCHANGED <<pin15, cfgVars, cmdVars>>

\* ------------------------------------------------------ command thread
\* Line 262: Listener(address); raises when main already holds the address,
\* which ends the thread.
CmdBind ==
  /\ th_pc = "bind"
  /\ IF bound_by = "none"
     THEN bound_by' = "cmd" /\ th_pc' = "accept"
     ELSE bound_by' = bound_by /\ th_pc' = "dead"
  /\ UNCHANGED <<main_pc, pending, pin15, pin26, cfgVars, mainVars, cmdVars>>

\* A client that presents no secret connects to the listener of
\* doorTriggerLoop and delivers one payload: Listener(address) at line 262
\* names no authkey, so accept() (266) asks for none.  A connection made
\* to the listener of main (line 383) is never accepted and changes nothing
\* in the program; it is not followed.
ClientSend(p) ==
  /\ bound_by = "cmd"
  /\ Len(pending) < Backlog
  /\ pending' = Append(pending, p)
  /\ UNCHANGED <<main_pc, th_pc, bound_by, pin15, pin26, cfgVars, mainVars,
                 cmdVars>>

\* pi_garage_trigger.py connects (line 10): with authkey given, Client()
\* first waits for the challenge of the listener, before line 11 sends
\* the payload.
ClientConnectAuth ==
  /\ bound_by = "cmd"
  /\ Len(pending) < Backlog
  /\ pending' = Append(pending, AwaitsChallenge)
  /\ UNCHANGED <<main_pc, th_pc, bound_by, pin15, pin26, cfgVars, mainVars,
                 cmdVars>>

\* str.lower() on the payloads of the model (line 270).
Lower(s) ==
  CASE s = "Open" -> "open"
    [] s = "firebase:Id2" -> "firebase:id2"
    [] s = "Firebase:Id1" -> "firebase:id1"
    [] OTHER -> s

\* Mutant of StartsWithFirebase: every payload passes the test.
StartsWithAnything(received) == TRUE

\* received.startswith('firebase:') (line 300)
StartsWithFirebase(received) == received \in {"firebase:id1", "firebase:id2"}

\* received_raw.replace('firebase:', '') (line 301): case-sensitive.
ReplaceFirebase(raw) ==
  CASE raw = "firebase:Id2" -> "Id2"
    [] OTHER -> raw

\* The global name `state` that doorTriggerLoop reads at lines 276, 281 and
\* 287.  The module binds none (the `state` of lines 374 and 386 is a local
\* of PiGarageAlert.main), so the read raises NameError.
Unbound == "<unbound>"
GlobalState == Unbound

\* Mutant of StateResponse: the two parts are swapped.
StateResponseSwapped(sample, mode) == mode \o " and " \o sample

\* Line 299: get_garage_door_state() + ' and ' + cfg.HOMEAWAY
StateResponse(sample, mode) == sample \o " and " \o mode

\* Lines 270-302.  sample is what get_garage_door_state() returns at 299.
\* Result: raised (an exception left the loop), response, trigger and the
\* new values of cfg.HOMEAWAY and cfg.FIREBASE_ID.
Route(raw, mode, fbid, sample) ==
  LET received == Lower(raw)
      base == [raised |-> FALSE, response |-> "unknown command",
               trigger |-> FALSE, mode |-> mode, fbid |-> fbid]
  IN IF received = "trigger"
     THEN IF GlobalState = Unbound
          THEN [base EXCEPT !.raised = TRUE, !.trigger = TRUE]
          ELSE IF GlobalState = "open"
               THEN [base EXCEPT !.trigger = TRUE, !.response = "closing"]
               ELSE [base EXCEPT !.trigger = TRUE, !.response = "opening"]
     ELSE IF received = "open" \/ received = "up"
     THEN IF GlobalState = Unbound
          THEN [base EXCEPT !.raised = TRUE]
          ELSE IF GlobalState = "open"
               THEN [base EXCEPT !.response = "already open"]
               ELSE [base EXCEPT !.trigger = TRUE, !.response = "opening"]
     ELSE IF received = "close" \/ received = "down"
     THEN IF GlobalState = Unbound
          THEN [base EXCEPT !.raised = TRUE]
          ELSE IF GlobalState = "open"
               THEN [base EXCEPT !.trigger = TRUE, !.response = "closing"]
               ELSE [base EXCEPT !.response = "already closed"]
     ELSE IF received = "home" \/ received = "set to home"
     THEN [base EXCEPT !.mode = "home", !.response = "set to home"]
     ELSE IF received = "away" \/ received = "set to away"
     THEN [base EXCEPT !.mode = "away", !.response = "set to away"]
     ELSE IF received = "state" \/ received = "status"
     THEN [base EXCEPT !.response = StateResponse(sample, mode)]
     ELSE IF StartsWithFirebase(received)
     THEN [base EXCEPT !.fbid = ReplaceFirebase(raw), !.response = "ok"]
     ELSE base

\* History: the mode named by a home or away command (the verbs of lines
\* 292 and 295), else what it was.
ModeCommand(raw, last) ==
  IF Lower(raw) \in {"home", "set to home"} THEN "home"
  ELSE IF Lower(raw) \in {"away", "set to away"} THEN "away"
  ELSE last

\* Mutant of CmdHandle: the thread writes the tracked door state of main.
CmdHandleTracksDoor ==
  /\ th_pc = "accept"
  /\ pending # <<>>
  /\ pulses < MaxPulses
  /\ pending' = Tail(pending)
  /\ IF Head(pending) = AwaitsChallenge
     THEN /\ th_pc' = "recv"
          /\ received_raw' = ""
          /\ response' = NoResponse
          /\ UNCHANGED <<trigger, HOMEAWAY, FIREBASE_ID, bound_by,
                         last_mode_cmd>>
     ELSE LET r == Route(Head(pending), HOMEAWAY, FIREBASE_ID,
                         GetGarageDoorState)
          IN /\ received_raw' = Head(pending)
             /\ trigger' = r.trigger
             /\ HOMEAWAY' = r.mode
             /\ FIREBASE_ID' = r.fbid
             /\ IF r.raised
                THEN /\ response' = NoResponse
                     /\ th_pc' = "dead"
                     /\ bound_by' = "none"
                     /\ last_mode_cmd' = "none"
                ELSE /\ response' = r.response
                     /\ th_pc' = "busy"
                     /\ bound_by' = bound_by
                     /\ last_mode_cmd' =
                          ModeCommand(Head(pending), last_mode_cmd)
  /\ door_state' = GetGarageDoorState
  /\ UNCHANGED <<main_pc, ALERTS, pin15, pin26, pulses,
                 time_of_last_state_change, alert_state, state,
                 time_in_state, time_of_day, sent, fires, now, poll_fault>>

\* Lines 266-304: accept one connection, read its payload, route it and
\* send the response.  When routing raises, the thread ends without
\* answering; its locals conn and listener are released with it, which
\* closes the connection and the listening socket.
\* A connection of a client that waits for the challenge delivers nothing:
\* the thread stays in conn.recv_bytes() (268), received_raw = '' (267).
CmdHandle ==
  /\ th_pc = "accept"
  /\ pending # <<>>
  /\ pulses < MaxPulses
  /\ pending' = Tail(pending)
  /\ IF Head(pending) = AwaitsChallenge
     THEN /\ th_pc' = "recv"
          /\ received_raw' = ""
          /\ response' = NoResponse
          /\ UNCHANGED <<trigger, HOMEAWAY, FIREBASE_ID, bound_by,
                         last_mode_cmd>>
     ELSE LET r == Route(Head(pending), HOMEAWAY, FIREBASE_ID,
                         GetGarageDoorState)
          IN /\ received_raw' = Head(pending)
             /\ trigger' = r.trigger
             /\ HOMEAWAY' = r.mode
             /\ FIREBASE_ID' = r.fbid
             /\ IF r.raised
                THEN /\ response' = NoResponse
                     /\ th_pc' = "dead"
                     /\ bound_by' = "none"
                     /\ last_mode_cmd' = "none"
                ELSE /\ response' = r.response
                     /\ th_pc' = "busy"
                     /\ bound_by' = bound_by
                     /\ last_mode_cmd' =
                          ModeCommand(Head(pending), last_mode_cmd)
  /\ UNCHANGED <<main_pc, ALERTS, pin15, pin26, pulses, mainVars>>

\* The client that waits for the challenge goes away: conn.recv_bytes()
\* (268) raises EOFError, which ends the thread and releases its listener,
\* and with it the connections that waited in the backlog.
CmdRecvFails ==
  /\ th_pc = "recv"
  /\ th_pc' = "dead"
  /\ bound_by' = "none"
  /\ pending' = <<>>
  /\ last_mode_cmd' = "none"
  /\ UNCHANGED <<main_pc, pin15, pin26, received_raw, response, trigger,
                 pulses, cfgVars, mainVars>>

\* Lines 307-313: the pulse on pin 26 (LOW, sleep 2, HIGH) when trigger is
\* set, then trigger = False and sleep 1, back to accept.
CmdFinish ==
  /\ th_pc = "busy"
  /\ pulses' = IF trigger THEN pulses + 1 ELSE pulses
  /\ pin26' = IF trigger THEN "HIGH" ELSE pin26
  /\ trigger' = FALSE
  /\ th_pc' = "accept"
  /\ UNCHANGED <<main_pc, bound_by, pending, received_raw, response, pin15,
                 last_mode_cmd, cfgVars, mainVars>>

\* ------------------------------------------------------- specifications
NextWith(hours, payloads) ==
  \/ DoorMoves
  \/ MainStart
  \/ \E t1 \in 1..MaxTime, t2 \in 1..MaxTime, hour \in hours,
        failed \in BOOLEAN : Tick(t1, t2, hour, failed)
  \/ PollFault
  \/ CmdBind
  \/ \E p \in payloads : ClientSend(p)
  \/ ClientConnectAuth
  \/ CmdHandle
  \/ CmdRecvFails
  \/ CmdFinish

\* The whole program with every payload of the model, under the
\* configurations of at most one rule.
Init == InitWith({l \in RuleLists : Len(l) <= 1})
Next == NextWith(BoundaryHours, Payloads)
Spec == Init /\ [][Next]_vars

\* The whole program under the configurations of the model whose rules
\* have a start hour other than their end hour (SpecHours follows the
\* others), with a few payloads.
InitAlerts ==
  InitWith({l \in RuleLists : \A i \in 1..Len(l) : l[i].start # l[i].end})
NextAlerts == NextWith(BoundaryHours, FewPayloads)
SpecAlerts == InitAlerts /\ [][NextAlerts]_vars

\* The whole program under the configurations of one rule, at every hour
\* of the day.
InitHours == InitWith({l \in RuleLists : Len(l) = 1})
NextHours == NextWith(Hours, FewPayloads)
SpecHours == InitHours /\ [][NextHours]_vars

\* ------------------------------------------------------------- claims
\* A step of the poll loop: in the poll loop only Tick reads the clock.
TickStep == main_pc = "poll" /\ now' # now
\* A pass of the poll loop has run.
Ticked == main_pc = "poll" /\ now > 1
\* A step in which doorTriggerLoop takes a connection and its payload.
HandleStep == th_pc = "accept" /\ th_pc' \in {"busy", "dead"}

\* C1: within one episode (between two changes of the door state) no rule
\* has send_alerts called for it more than once.
C1_FiresAtMostOncePerEpisode == \A i \in DOMAIN fires : fires[i] <= 1

\* C1 witness: a rule fired earlier in the episode, its condition held
\* again on the last pass, and it was not sent again.
C1_Witness ==
  /\ Ticked
  /\ \E i \in DOMAIN fires :
        /\ fires[i] = 1
        /\ i \notin sent
        /\ SendAlert(ALERTS[i], HOMEAWAY, state, time_of_day, time_in_state)

\* C2: a pass of the poll loop in Away mode that samples Open, with at
\* least one rule and no alert fired yet in the episode, fires an alert,
\* whatever the hour, the windows, the thresholds and the trigger states.
C2_AwayOpenFires ==
  [][(/\ TickStep
      /\ HOMEAWAY = "away"
      /\ state' = "open"
      /\ Len(ALERTS) >= 1
      /\ (door_state # state' \/ \A i \in DOMAIN fires : fires[i] = 0))
     => sent' # {}]_vars

\* C2 witness: on the pass of a change to Open (time_in_state 0) in Away
\* mode, a rule was sent outside its window.
C2_Witness ==
  /\ Ticked
  /\ HOMEAWAY = "away"
  /\ state = "open"
  /\ time_in_state = 0
  /\ \E i \in sent :
        ~InWindow(ALERTS[i].start, ALERTS[i].end, time_of_day)

\* C3: after every pass of the poll loop door_state is the state sampled
\* on the pass; time_in_state is 0 exactly when the sample differs from
\* the door_state before the pass; otherwise it is the clock minus the
\* start of the episode, and the start of the episode is unchanged.
C3_EpisodeTracksSample ==
  [][TickStep =>
       /\ state' = GetGarageDoorState
       /\ door_state' = state'
       /\ (time_in_state' = 0) <=> (state' # door_state)
       /\ (state' = door_state =>
             /\ time_in_state' = now' - time_of_last_state_change
             /\ time_of_last_state_change' = time_of_last_state_change)]_vars

\* C3 witness: a pass has just seen the door change: time_in_state is 0
\* and the episode starts at the clock reading of the pass.
C3_Witness ==
  /\ Ticked
  /\ time_in_state = 0
  /\ time_of_last_state_change = now
  /\ door_state = state

\* The rule i was looked at on the last pass with alert_state 0: it was
\* sent, or nothing has been sent in the episode.
Evaluated(i) == i \in sent \/ alert_state = 0
\* The last pass was not one of the away-mode override.
NoOverride == ~(HOMEAWAY = "away" /\ state = "open")
\* The hours the claim gives for a window with start # end.
ClaimedHours(s, e) ==
  IF s < e THEN {h \in Hours : s <= h /\ h <= e}
  ELSE {h \in Hours : h >= s \/ h <= e}

\* C8: for a rule with startHour # endHour that is looked at outside the
\* override with the door in its trigger state for longer than its
\* threshold, the rule is sent exactly at the hours s..e (s < e) or
\* s..23 and 0..e (s > e): {22, 6} at 22, 23, 0..6 and {6, 22} at 6..22.
C8_WindowHours ==
  /\ ClaimedHours(22, 6) = {22, 23, 0, 1, 2, 3, 4, 5, 6}
  /\ ClaimedHours(6, 22) = 6..22
  /\ \A i \in DOMAIN ALERTS :
       (/\ Ticked
        /\ NoOverride
        /\ Evaluated(i)
        /\ ALERTS[i].start # ALERTS[i].end
        /\ state = ALERTS[i].state
        /\ time_in_state > ALERTS[i].time)
       => (i \in sent <=> time_of_day \in ClaimedHours(ALERTS[i].start, ALERTS[i].end))

\* C8 witness: the rule {22, 6} was sent at hour 6, the end of its window,
\* in Home mode.
C8_Witness ==
  /\ Ticked
  /\ HOMEAWAY = "home"
  /\ time_of_day = 6
  /\ \E i \in sent : ALERTS[i].start = 22 /\ ALERTS[i].end = 6

\* C9: in Home mode a rule with startHour = endHour that is looked at with
\* the door in its trigger state for longer than its threshold is sent at
\* every hour of the day.
C9_SameHourIsAllDay ==
  \A i \in DOMAIN ALERTS :
    (/\ Ticked
     /\ HOMEAWAY = "home"
     /\ Evaluated(i)
     /\ ALERTS[i].start = ALERTS[i].end
     /\ state = ALERTS[i].state
     /\ time_in_state > ALERTS[i].time)
    => i \in sent

\* C10: a rule whose own condition holds on a pass has fired in the
\* episode (on this pass if not before), whatever the other rules did.
C10_ArmStatePerRule ==
  \A i \in DOMAIN ALERTS :
    (Ticked /\ SendAlert(ALERTS[i], HOMEAWAY, state, time_of_day, time_in_state))
    => fires[i] >= 1

\* C4: for trigger, open/up and close/down the response and the request
\* for an actuation depend only on the door state when the command is
\* processed: trigger answers closing (open) or opening (closed) and
\* requests an actuation; open/up answers already open without actuation
\* (open) or opening with one (closed); close/down answers closing with
\* one (open) or already closed without (closed).
C4_ActuationCommands ==
  [][HandleStep =>
       LET c == Lower(Head(pending))
           open == GetGarageDoorState = "open"
           requested == trigger' /\ th_pc' = "busy"
       IN /\ c = "trigger" =>
               /\ response' = (IF open THEN "closing" ELSE "opening")
               /\ requested
          /\ c \in {"open", "up"} =>
               /\ response' = (IF open THEN "already open" ELSE "opening")
               /\ requested <=> ~open
          /\ c \in {"close", "down"} =>
               /\ response' = (IF open THEN "closing" ELSE "already closed")
               /\ requested <=> open]_vars

\* C5: the actuation requests that arrive within one pulse give exactly
\* one pulse: once doorTriggerLoop is through with a trigger command, one
\* pulse has been driven on the control line, and no more.
C5_RequestsGiveOnePulse ==
  (th_pc \in {"accept", "dead"} /\ Lower(received_raw) = "trigger")
  => pulses = 1

\* C6: every connection taken by the listener with a payload gets a
\* response, whatever the payload, and the listener goes on to accept.
C6_OneResponsePerConnection ==
  [][HandleStep => (response' # NoResponse /\ th_pc' = "busy")]_vars

\* C7: a pulse does not block the accept loop: while an actuation is
\* requested and not yet completed, doorTriggerLoop is at accept, able to
\* take and answer the next command.
C7_AcceptsDuringPulse ==
  (trigger /\ main_pc # "exited") => th_pc = "accept"

\* C11: state and status are answered "<door state> and <mode>": the door
\* state is the one the sensor shows, the mode is the one set by the last
\* home or away command, or the configured one when no such command came;
\* this holds right after the command, with no pass of the poll loop in
\* between.
C11_StateAnswersDoorAndMode ==
  [][/\ (HandleStep /\ Lower(Head(pending)) \in {"state", "status"})
          => /\ th_pc' = "busy"
             /\ response' = GetGarageDoorState \o " and " \o
                  (IF last_mode_cmd # "none" THEN last_mode_cmd ELSE HOMEAWAY)
     /\ (last_mode_cmd' # "none" => HOMEAWAY' = last_mode_cmd')
     /\ (last_mode_cmd = "none" /\ last_mode_cmd' = "none"
          => HOMEAWAY' = HOMEAWAY)]_vars

\* C11 witness: state was answered with the mode of an away command, and
\* with the open door, before main ran any pass of the poll loop.
C11_Witness ==
  /\ th_pc = "busy"
  /\ main_pc = "start"
  /\ received_raw \in {"state", "status"}
  /\ last_mode_cmd = "away"
  /\ response = "open and away"

\* Payloads outside the vocabulary of lines 274-300.
Unknown(raw) ==
  /\ Lower(raw) \notin {"trigger", "open", "up", "close", "down", "home",
                        "set to home", "away", "set to away", "state",
                        "status"}
  /\ raw \notin {"firebase:Id2", "Firebase:Id1"}

\* C12: a payload outside the vocabulary is answered "unknown command" and
\* changes nothing: the mode, the notification target, the tracked episode
\* and the arm state stay, and no pulse is driven for it.
C12_UnknownCommandNoEffect ==
  [][/\ (HandleStep /\ Unknown(Head(pending)))
          => /\ th_pc' = "busy"
             /\ response' = "unknown command"
             /\ ~trigger'
             /\ UNCHANGED <<HOMEAWAY, FIREBASE_ID, door_state,
                            time_of_last_state_change, alert_state, fires,
                            pin26, pulses>>
     /\ (th_pc = "busy" /\ Unknown(received_raw) /\ th_pc' = "accept")
          => UNCHANGED <<HOMEAWAY, FIREBASE_ID, pin26, pulses>>]_vars

\* C12 witness: the thread is through an unknown command; what earlier
\* commands had set is still there and no pulse was driven.
C12_Witness ==
  /\ th_pc = "accept"
  /\ Unknown(received_raw) /\ received_raw # ""
  /\ response = "unknown command"
  /\ FIREBASE_ID = "Id2"
  /\ last_mode_cmd = "away" /\ HOMEAWAY = "away"
  /\ pulses = 0 /\ pin26 = "HIGH"

\* The thread takes the connection at the head of the backlog.
TakesConnection == th_pc = "accept" /\ th_pc' \in {"recv", "busy", "dead"}

\* C13: a payload that came over a connection which presented no secret
\* is not processed (no answer, no change of mode or notification target,
\* no actuation requested), and the connection of the shipped client,
\* which presents the secret, gets through the handshake and is answered.
C13_SecretGatesCommands ==
  [][/\ (TakesConnection /\ Head(pending) # AwaitsChallenge)
          => /\ response' = NoResponse
             /\ ~trigger'
             /\ UNCHANGED <<HOMEAWAY, FIREBASE_ID>>
     /\ (TakesConnection /\ Head(pending) = AwaitsChallenge)
          => /\ th_pc' = "busy"
             /\ response' # NoResponse]_vars

\* C14: a delivery whose transport fails does not stop the poll loop; the
\* rule is marked as fired as after a delivery that went through (the arm
\* state is what a success leaves), and the next pass of the same episode
\* sends nothing again.
C14_DeliveryFailureSwallowed ==
  [][/\ poll_fault' = "transport"
          => /\ main_pc' = "poll"
             /\ sent' # {}
             /\ \A i \in sent' : fires'[i] = 1
             /\ alert_state' = NextAlertState(0)
             /\ ~Armed(alert_state')
     /\ (poll_fault = "transport" /\ TickStep /\ state' = door_state)
          => /\ main_pc' = "poll"
             /\ sent' = {}
             /\ alert_state' = alert_state]_vars

\* C14 witness: the delivery of the last pass failed, the loop goes on and
\* the rule counts as fired.
C14_Witness ==
  /\ main_pc = "poll"
  /\ poll_fault = "transport"
  /\ \E i \in sent : fires[i] = 1
  /\ alert_state = 1

\* C15: a fault that leaves the poll loop ends the process, and whenever
\* the process has ended the pins are released (the control line is an
\* input again, never left driven), the command thread is gone and the
\* address is free.
C15_FaultIsFatal ==
  /\ (poll_fault = "sensor" => main_pc = "exited")
  /\ (main_pc = "exited"
        => /\ pin26 = "INPUT"
           /\ th_pc \in {"dead", "killed"}
           /\ bound_by = "none")

\* C15 witness: the read of the sensor raised in the poll loop after a
\* pass had run; the process is gone and the control line released.
C15_Witness ==
  /\ main_pc = "exited"
  /\ poll_fault = "sensor"
  /\ now > 1
  /\ pin26 = "INPUT"

\* A step of the command thread on a connection: it takes one, or it
\* finishes with one and goes back to accept.
CommandStep == TakesConnection \/ (th_pc \in {"busy", "recv"} /\ th_pc' \in {"accept", "dead"})
\* A step of the main thread: start-up, a pass of the poll loop, or its end.
MainStep == main_pc' # main_pc \/ now' # now

\* C16: no step of the command thread changes the tracked door state, the
\* start of the episode or the arm state; no step of the main thread
\* changes the mode.
C16_SingleWriter ==
  [][/\ CommandStep
          => UNCHANGED <<door_state, time_of_last_state_change, alert_state,
                         fires>>
     /\ MainStep => HOMEAWAY' = HOMEAWAY]_vars

\* C16 witness: commands were processed (the notification target is one a
\* command set, the last one was trigger) and main then ran passes of its
\* poll loop and tracks an episode.
C16_Witness ==
  /\ Ticked
  /\ FIREBASE_ID = "Id2"
  /\ Lower(received_raw) = "trigger"
  /\ door_state \in DoorStates
  /\ time_in_state > 0

\* C17: the control line is driven (LOW) only while the thread is in the
\* pulse of a request; whenever the thread waits for a command the line is
\* idle (HIGH); and a pulse that was requested (trigger is set) is driven
\* by the thread, which is then on its way back to accept.
C17_LineActiveOnlyInPulse ==
  /\ (pin26 = "LOW" => (th_pc = "busy" /\ trigger))
  /\ (th_pc \in {"accept", "recv"} => (pin26 = "HIGH" /\ ~trigger))
  /\ ((trigger /\ main_pc # "exited") => th_pc = "busy")

\* C18: outside the away-mode override a rule is sent on a pass only if the
\* hour of the pass is in its window, the sampled state is its trigger
\* state and time_in_state is strictly greater than its threshold: never
\* at time_in_state equal to the threshold, and never on the pass of a
\* change (time_in_state 0) when the threshold is not negative.
C18_FiresOnlyPastThreshold ==
  NoOverride =>
    \A i \in sent :
       /\ time_of_day \in ClaimedHours(ALERTS[i].start, ALERTS[i].end)
       /\ state = ALERTS[i].state
       /\ time_in_state > ALERTS[i].time
       /\ time_in_state # ALERTS[i].time
       /\ (ALERTS[i].time >= 0 => time_in_state # 0)

\* C18 witness: outside the override an armed rule was looked at in its
\* window with the door in its trigger state for exactly its threshold,
\* with no change on the pass, and was not sent.
C18_Witness ==
  /\ Ticked
  /\ NoOverride
  /\ alert_state = 0
  /\ \E i \in DOMAIN ALERTS :
        /\ i \notin sent
        /\ InWindow(ALERTS[i].start, ALERTS[i].end, time_of_day)
        /\ state = ALERTS[i].state
        /\ time_in_state = ALERTS[i].time
        /\ time_in_state > 0

\* C19: a change of the door state re-arms the rules: on the pass of the
\* change the marks of the ended episode are dropped (a rule counts as
\* fired in the new episode only if this pass sent it), and a rule that
\* had fired in the ended episode and whose condition holds on this pass
\* is sent again.
C19_TransitionRearms ==
  [][(TickStep /\ state' # door_state) =>
       \A i \in DOMAIN fires :
          /\ fires'[i] = (IF i \in sent' THEN 1 ELSE 0)
          /\ (/\ fires[i] >= 1
              /\ SendAlert(ALERTS[i], HOMEAWAY, state', time_of_day',
                           time_in_state'))
               => i \in sent']_vars

\* C20: whatever the order of the thread's bind (262) and main's creation
\* of its listener (383), neither fails: the thread leaves its bind
\* accepting on the listener it holds, and main leaves start-up into the
\* poll loop with the thread untouched.
C20_StartupReachesBoth ==
  [][/\ (th_pc = "bind" /\ th_pc' # "bind" /\ main_pc' = main_pc)
          => (th_pc' = "accept" /\ bound_by' = "cmd")
     /\ (main_pc = "start" /\ main_pc' # "start")
          => (main_pc' = "poll" /\ th_pc' = th_pc)]_vars

====
